---- MODULE Spec2Model ----
(***************************************************************************)
(* The pricing service of package-pricing-service: updatePackagePrice,     *)
(* getCurrentPackagePrice and getPackagePriceHistory over the tables       *)
(* packages, municipalities, prices and price_histories, stored in one     *)
(* SQLite file through Sequelize.                                          *)
(*                                                                         *)
(* updatePackagePrice runs in a Sequelize transaction.  With the sqlite    *)
(* dialect and a file storage every transaction has a connection of its    *)
(* own and starts with BEGIN DEFERRED: the first SELECT takes the file's   *)
(* SHARED lock and keeps it until COMMIT or ROLLBACK, the first write      *)
(* takes the RESERVED lock, of which there is one, and COMMIT needs every  *)
(* other connection to have released SHARED.  A connection that holds      *)
(* SHARED and asks for RESERVED while another one holds it is answered     *)
(* SQLITE_BUSY at once.  Each await of the function is one step.           *)
(***************************************************************************)
EXTENDS Integers, Sequences, FiniteSets, TLC

\* ---------------------------------------------------------------- bounds
MaxCalls == 2  \* calls of updatePackagePrice made in one behaviour
MaxTime == 2   \* the clock reads 0..MaxTime

\* ---------------------------------------------------------------- values
\* SQL NULL / JS undefined is the empty tuple, a present number n is <<n>>.
Null == <<>>
Some(n) == <<n>>

\* JS truthiness of an optional number: undefined and 0 are falsy.
Truthy(municipalityId) == municipalityId # Null /\ municipalityId[1] # 0

\* `municipalityId || undefined`: the value stored in a created row.
OrUndefined(municipalityId) == IF Truthy(municipalityId) THEN municipalityId ELSE Null

Slots == {1, 2}                      \* concurrent callers of updatePackagePrice
PackageInputs == {1, 2, 3}           \* 1 active; 2 inactive; 3 has no row
MunicipalityInputs == {Null, Some(0), Some(1), Some(2)}
                                     \* 1 active; 2 inactive
Amounts == {-1, 0, 2999}
\* Two calendar years: the clock reads MaxTime at the first instant of the
\* second one.
TicksPerYear == MaxTime
Years == {0, 1}

VARIABLES
  packages,        \* table packages: id -> [is_active]
  municipalities,  \* table municipalities: id -> [is_active]
  prices,          \* table prices, committed rows
  histories,       \* table price_histories, committed rows
  now,             \* the latest reading of the wall clock (new Date())
  started,         \* number of updatePackagePrice calls started
  pc,              \* per caller: the await the call is at
  args,            \* per caller: packageId, priceCents, municipalityId of
                   \* its latest call
  lock,            \* per caller: the SQLite lock its connection holds
  existingPrice,   \* per caller: the row Price.findOne returned, if any
  txPrice,         \* per caller: the prices row written in the transaction
  txHistory,       \* per caller: the price_histories row written in it
  error,           \* per caller: the error its latest call caught
  response         \* what the step just taken returned or raised to its caller

vars == <<packages, municipalities, prices, histories, now, started, pc, args,
          lock, existingPrice, txPrice, txHistory, error, response>>

catalog == <<packages, municipalities>>
tables == <<prices, histories>>
txVars == <<pc, args, lock, existingPrice, txPrice, txHistory, error>>

\* ---------------------------------------------------------------- catalog
\* Package.findOne({ where: { id, is_active: true } })
FindActivePackage(packageId) ==
  packageId \in DOMAIN packages /\ packages[packageId].is_active

\* Municipality.findOne({ where: { id, is_active: true } }), id a number
FindActiveMunicipality(id) ==
  id \in DOMAIN municipalities /\ municipalities[id].is_active

\* A conversion that drops the hundredths.
convertCentsToWholeUnits(priceCents) ==
  [units |-> priceCents \div 100, hundredths |-> 0]

\* ---------------------------------------------------------------- display
\* Math.round((priceCents / 100) * 100) / 100: the amount in units with two
\* decimals, kept as whole units and hundredths.
convertCentsToDisplay(priceCents) ==
  [units |-> priceCents \div 100, hundredths |-> priceCents % 100]

\* ---------------------------------------------------------------- tables
\* An error message: its wording and the id it names.
NoError == [kind |-> "none", id |-> 0, municipalityId |-> Null]
Err(kind, id) == [kind |-> kind, id |-> id, municipalityId |-> Null]

Max(S) == CHOOSE x \in S : \A y \in S : y <= x

\* INTEGER PRIMARY KEY AUTOINCREMENT: rows are never deleted, so the next id
\* is one more than the largest id of the table.
NextId(table) == IF table = {} THEN 1 ELSE Max({r.id : r \in table}) + 1

\* A where clause built from the argument as it came: 0 stays 0.
WhereMunicipalityRaw(municipalityId) == municipalityId

\* whereClause.municipalityId: the id when it is truthy, otherwise null.
WhereMunicipality(municipalityId) == OrUndefined(municipalityId)

\* A lookup that leaves the municipality out of the where clause.
ActivePricesAnyMunicipality(packageId, municipalityId) ==
  {r \in prices : r.packageId = packageId /\ r.is_active}

\* Price.findOne({ where: { packageId, is_active: true, municipalityId } }):
\* the rows the WHERE clause matches (findOne returns one of them).
ActivePrices(packageId, municipalityId) ==
  {r \in prices : /\ r.packageId = packageId
                  /\ r.is_active
                  /\ r.municipalityId = WhereMunicipality(municipalityId)}

\* The unique partial index on (packageId, municipalityId, is_active) WHERE
\* is_active: an insert is rejected when an active row has the same packageId
\* and the same municipalityId.  SQLite holds NULLs to be distinct in a unique
\* index, so a row whose municipalityId is NULL is never rejected.
ViolatesUniqueIndex(row) ==
  /\ row.is_active
  /\ row.municipalityId # Null
  /\ \E r \in prices : /\ r.is_active
                       /\ r.packageId = row.packageId
                       /\ r.municipalityId = row.municipalityId

\* ---------------------------------------------------------------- SQLite locks
\* A store that grants every writer its lock.
CanReserveAlways(c) == TRUE

\* RESERVED is granted when no other connection holds it.
CanReserve(c) == \A d \in Slots \ {c} : lock[d] # "RESERVED"

\* COMMIT takes the EXCLUSIVE lock: every other connection has left SHARED.
CanCommit(c) == \A d \in Slots \ {c} : lock[d] = "NONE"

\* ---------------------------------------------------------------- results
NoArgs == [packageId |-> 0, priceCents |-> 0, municipalityId |-> Null]

\* A step that returns nothing to a caller leaves NoResponse.  price and
\* history are optional fields: empty when absent, else the one value;
\* status is the HTTP status of an endpoint's answer, 0 for a service call.
NoResponse ==
  [op |-> "none", success |-> FALSE, raised |-> FALSE, price |-> {},
   history |-> {}, error |-> NoError, status |-> 0]

\* The list a result carries, the empty list when it carries none.
Listing(res) == IF res.history = {} THEN <<>> ELSE CHOOSE s \in res.history : TRUE

\* The price object updatePackagePrice returns for the row newPrice.
PriceInfo(newPrice, municipalityRecord) ==
  [id |-> newPrice.id,
   packageId |-> newPrice.packageId,
   municipalityId |-> OrUndefined(newPrice.municipalityId),
   priceCents |-> newPrice.priceCents,
   priceDisplay |-> convertCentsToDisplay(newPrice.priceCents),
   currency_code |-> newPrice.currency_code,
   municipality |-> municipalityRecord]

\* ---------------------------------------------------------------- Init
Init ==
  /\ packages = [id \in {1, 2} |-> [is_active |-> id = 1]]
  /\ municipalities = [id \in {1, 2} |-> [is_active |-> id = 1]]
  /\ prices = {}
  /\ histories = {}
  /\ now = 0
  /\ started = 0
  /\ pc = [c \in Slots |-> "idle"]
  /\ args = [c \in Slots |-> NoArgs]
  /\ lock = [c \in Slots |-> "NONE"]
  /\ existingPrice = [c \in Slots |-> {}]
  /\ txPrice = [c \in Slots |-> {}]
  /\ txHistory = [c \in Slots |-> {}]
  /\ error = [c \in Slots |-> NoError]
  /\ response = NoResponse

\* ---------------------------------------------------------------- updatePackagePrice
\* The call starts: transaction = await sequelize.transaction() (BEGIN
\* DEFERRED takes no lock).  A caller uses the lowest free slot.
Begin(c, packageId, priceCents, municipalityId) ==
  /\ pc[c] = "idle"
  /\ \A d \in Slots : d < c => pc[d] # "idle"
  /\ started < MaxCalls
  /\ started' = started + 1
  /\ pc' = [pc EXCEPT ![c] = "findPackage"]
  /\ args' = [args EXCEPT ![c] = [packageId |-> packageId,
                                  priceCents |-> priceCents,
                                  municipalityId |-> municipalityId]]
  /\ response' = NoResponse
  /\ error' = [error EXCEPT ![c] = NoError]
  /\ UNCHANGED <<catalog, tables, now, lock, existingPrice, txPrice,
                 txHistory>>

\* `if (!packageRecord) throw new Error(...)`
PackageError(packageId) ==
  IF FindActivePackage(packageId) THEN NoError
  ELSE Err("PackageNotFound", packageId)

\* `if (municipalityId) { ... if (!municipalityRecord) throw new Error(...) }`
MunicipalityError(municipalityId) ==
  IF Truthy(municipalityId) /\ ~FindActiveMunicipality(municipalityId[1])
    THEN Err("MunicipalityNotFound", municipalityId[1])
    ELSE NoError

\* A check that rejects the amount 0 with the negative ones.
AmountErrorNonPositive(priceCents) ==
  IF priceCents <= 0 THEN Err("NegativePrice", 0) ELSE NoError

\* `if (priceCents < 0) throw new Error('Price cannot be negative')`
AmountError(priceCents) ==
  IF priceCents < 0 THEN Err("NegativePrice", 0) ELSE NoError

\* A call that goes on to the price lookup whatever the amount.
AfterCatalogUnchecked(c) == "findPrice"

\* The amount is checked without an await after the last catalog lookup:
\* the step the call goes to next.
AfterCatalog(c) ==
  IF AmountError(args[c].priceCents) # NoError THEN "rollback" ELSE "findPrice"

\* A call that checks the amount before it looks the package up.
FindPackageAmountFirst(c) ==
  /\ pc[c] = "findPackage"
  /\ lock' = [lock EXCEPT ![c] = "SHARED"]
  /\ IF AmountError(args[c].priceCents) # NoError
       THEN /\ pc' = [pc EXCEPT ![c] = "rollback"]
            /\ error' = [error EXCEPT ![c] = AmountError(args[c].priceCents)]
       ELSE IF PackageError(args[c].packageId) # NoError
         THEN /\ pc' = [pc EXCEPT ![c] = "rollback"]
              /\ error' = [error EXCEPT ![c] = PackageError(args[c].packageId)]
         ELSE /\ pc' = [pc EXCEPT ![c] =
                   IF Truthy(args[c].municipalityId) THEN "findMunicipality"
                   ELSE "findPrice"]
              /\ UNCHANGED error
  /\ response' = NoResponse
  /\ UNCHANGED <<catalog, tables, now, started, args, existingPrice, txPrice,
                 txHistory>>

\* await Package.findOne(...): the transaction's first SELECT, which takes
\* SHARED; then `if (!packageRecord) throw`.
FindPackage(c) ==
  /\ pc[c] = "findPackage"
  /\ lock' = [lock EXCEPT ![c] = "SHARED"]
  /\ IF PackageError(args[c].packageId) # NoError
       THEN /\ pc' = [pc EXCEPT ![c] = "rollback"]
            /\ error' = [error EXCEPT ![c] = PackageError(args[c].packageId)]
       ELSE IF Truthy(args[c].municipalityId)
         THEN /\ pc' = [pc EXCEPT ![c] = "findMunicipality"]
              /\ UNCHANGED error
         ELSE /\ pc' = [pc EXCEPT ![c] = AfterCatalog(c)]
              /\ error' = [error EXCEPT ![c] = AmountError(args[c].priceCents)]
  /\ response' = NoResponse
  /\ UNCHANGED <<catalog, tables, now, started, args, existingPrice, txPrice,
                 txHistory>>

\* await Municipality.findOne(...), run only for a truthy municipalityId;
\* then `if (!municipalityRecord) throw`.
FindMunicipality(c) ==
  /\ pc[c] = "findMunicipality"
  /\ IF MunicipalityError(args[c].municipalityId) # NoError
       THEN /\ pc' = [pc EXCEPT ![c] = "rollback"]
            /\ error' = [error EXCEPT ![c] = MunicipalityError(args[c].municipalityId)]
       ELSE /\ pc' = [pc EXCEPT ![c] = AfterCatalog(c)]
            /\ error' = [error EXCEPT ![c] = AmountError(args[c].priceCents)]
  /\ response' = NoResponse
  /\ UNCHANGED <<catalog, tables, now, started, args, lock, existingPrice,
                 txPrice, txHistory>>

\* existingPrice = await Price.findOne({ where: whereClause, transaction })
FindPrice(c) ==
  /\ pc[c] = "findPrice"
  /\ LET found == ActivePrices(args[c].packageId, args[c].municipalityId) IN
       IF found = {}
         THEN existingPrice' = [existingPrice EXCEPT ![c] = {}]
         ELSE \E r \in found : existingPrice' = [existingPrice EXCEPT ![c] = {r}]
  /\ pc' = [pc EXCEPT ![c] = "writePrice"]
  /\ response' = NoResponse
  /\ UNCHANGED <<catalog, tables, now, started, args, lock, txPrice,
                 txHistory, error>>

\* The row Price.create({ packageId, municipalityId: municipalityId ||
\* undefined, priceCents, is_active: true, currency_code: 'SEK' }) inserts.
CreatedPrice(packageId, priceCents, municipalityId) ==
  [id |-> NextId(prices),
   packageId |-> packageId,
   municipalityId |-> OrUndefined(municipalityId),
   priceCents |-> priceCents,
   is_active |-> TRUE,
   currency_code |-> "SEK"]

\* An update that leaves the amount of the row as it was.
UpdatedPriceUnchanged(row, priceCents) ==
  [row EXCEPT !.currency_code = "SEK"]

\* The row existingPrice.update({ priceCents, currency_code: 'SEK' }) leaves.
UpdatedPrice(row, priceCents) ==
  [row EXCEPT !.priceCents = priceCents, !.currency_code = "SEK"]

\* A call that inserts a row whether or not it found one.
NewPriceInserted(existing, packageId, priceCents, municipalityId) ==
  {CreatedPrice(packageId, priceCents, municipalityId)}

\* newPrice: the row the update or the create of the call leaves.
NewPrice(existing, packageId, priceCents, municipalityId) ==
  IF existing = {}
    THEN {CreatedPrice(packageId, priceCents, municipalityId)}
    ELSE {UpdatedPrice(r, priceCents) : r \in existing}

\* Price.create is rejected by the unique index.
CreateRejected(existing, packageId, priceCents, municipalityId) ==
  /\ existing = {}
  /\ ViolatesUniqueIndex(CreatedPrice(packageId, priceCents, municipalityId))

\* A write that waits for the RESERVED lock instead of failing at once.
WritePriceWaiting(c) ==
  /\ pc[c] = "writePrice"
  /\ CanReserve(c)
  /\ pc' = [pc EXCEPT ![c] = "writeHistory"]
  /\ lock' = [lock EXCEPT ![c] = "RESERVED"]
  /\ txPrice' = [txPrice EXCEPT ![c] =
       NewPrice(existingPrice[c], args[c].packageId,
                args[c].priceCents, args[c].municipalityId)]
  /\ response' = NoResponse
  /\ UNCHANGED <<catalog, tables, now, started, args, existingPrice,
                 txHistory, error>>

\* await existingPrice.update(...) or await Price.create(...): the
\* transaction's first write, which asks for RESERVED.
WritePrice(c) ==
  /\ pc[c] = "writePrice"
  /\ IF ~CanReserve(c)
       THEN /\ pc' = [pc EXCEPT ![c] = "rollback"]
            /\ error' = [error EXCEPT ![c] = Err("SQLITE_BUSY", 0)]
            /\ UNCHANGED <<lock, txPrice>>
       ELSE IF CreateRejected(existingPrice[c], args[c].packageId,
                              args[c].priceCents, args[c].municipalityId)
         THEN /\ pc' = [pc EXCEPT ![c] = "rollback"]
              /\ error' = [error EXCEPT ![c] = Err("UniqueConstraint", 0)]
              /\ lock' = [lock EXCEPT ![c] = "RESERVED"]
              /\ UNCHANGED txPrice
         ELSE /\ pc' = [pc EXCEPT ![c] = "writeHistory"]
              /\ lock' = [lock EXCEPT ![c] = "RESERVED"]
              /\ txPrice' = [txPrice EXCEPT ![c] =
                   NewPrice(existingPrice[c], args[c].packageId,
                            args[c].priceCents, args[c].municipalityId)]
              /\ UNCHANGED error
  /\ response' = NoResponse
  /\ UNCHANGED <<catalog, tables, now, started, args, existingPrice,
                 txHistory>>

\* A history row that leaves the municipality out.
CreatedHistoryGlobal(packageId, priceCents, municipalityId, createdAt) ==
  [id |-> NextId(histories),
   packageId |-> packageId,
   municipalityId |-> Null,
   priceCents |-> priceCents,
   currency_code |-> "SEK",
   createdAt |-> createdAt]

\* The row PriceHistory.create({ packageId, municipalityId: municipalityId ||
\* undefined, priceCents, currency_code: 'SEK' }) inserts; createdAt is the
\* reading of the clock at the call.
CreatedHistory(packageId, priceCents, municipalityId, createdAt) ==
  [id |-> NextId(histories),
   packageId |-> packageId,
   municipalityId |-> OrUndefined(municipalityId),
   priceCents |-> priceCents,
   currency_code |-> "SEK",
   createdAt |-> createdAt]

\* The readings new Date() can give now: the clock does not run backwards.
ClockReadings == now..MaxTime

\* A call that records history only for a row it created.
WriteHistoryOnCreate(c) ==
  /\ pc[c] = "writeHistory"
  /\ \E t \in ClockReadings :
       /\ now' = t
       /\ txHistory' = [txHistory EXCEPT ![c] =
            IF existingPrice[c] # {} THEN {}
            ELSE {CreatedHistory(args[c].packageId, args[c].priceCents,
                                 args[c].municipalityId, t)}]
  /\ pc' = [pc EXCEPT ![c] = "commit"]
  /\ response' = NoResponse
  /\ UNCHANGED <<catalog, tables, started, args, lock, existingPrice,
                 txPrice, error>>

\* await PriceHistory.create(..., { transaction })
WriteHistory(c) ==
  /\ pc[c] = "writeHistory"
  /\ \E t \in ClockReadings :
       /\ now' = t
       /\ txHistory' = [txHistory EXCEPT ![c] =
            {CreatedHistory(args[c].packageId, args[c].priceCents,
                            args[c].municipalityId, t)}]
  /\ pc' = [pc EXCEPT ![c] = "commit"]
  /\ response' = NoResponse
  /\ UNCHANGED <<catalog, tables, started, args, lock, existingPrice,
                 txPrice, error>>

\* A commit that replaces every row of the package by the written one.
CommittedPricesPerPackage(written) ==
  {r \in prices : \A w \in written : r.packageId # w.packageId} \cup written

\* A commit that leaves the written row alone in the table.
CommittedPricesAlone(written) == written

\* The tables after a transaction's writes are applied.
CommittedPrices(written) ==
  {r \in prices : \A w \in written : r.id # w.id} \cup written

\* A commit that restates the earlier history rows of the key at the new
\* amount.
CommittedHistoriesRestated(written) ==
  {IF \E w \in written : /\ w.packageId = h.packageId
                          /\ w.municipalityId = h.municipalityId
     THEN [h EXCEPT !.priceCents =
             (CHOOSE w \in written : /\ w.packageId = h.packageId
                                     /\ w.municipalityId = h.municipalityId
             ).priceCents]
     ELSE h : h \in histories} \cup written

\* A commit that loses the history row.
CommittedHistoriesLost(written) == histories

CommittedHistories(written) == histories \cup written

\* municipalityRecord of a call: the municipality found, if one was asked.
MunicipalityRecord(municipalityId) ==
  IF Truthy(municipalityId) THEN {municipalityId[1]} ELSE {}

\* return { success: true, price: {...}, message }
Returned(newPrice, municipalityId) ==
  [NoResponse EXCEPT
     !.op = "updatePackagePrice",
     !.success = TRUE,
     !.price = {PriceInfo(w, MunicipalityRecord(municipalityId)) : w \in newPrice}]

\* A catch that returns the failure, as the reads' does.
RaisedAsFailure(err) ==
  [NoResponse EXCEPT !.op = "updatePackagePrice", !.error = err]

\* throw new Error(errorMessage)
Raised(err) ==
  [NoResponse EXCEPT !.op = "updatePackagePrice", !.raised = TRUE, !.error = err]

\* The call is over: its connection is released and its rows are gone; the
\* caller keeps what it called with and what it caught.
Return(c) ==
  /\ pc' = [pc EXCEPT ![c] = "idle"]
  /\ lock' = [lock EXCEPT ![c] = "NONE"]
  /\ existingPrice' = [existingPrice EXCEPT ![c] = {}]
  /\ txPrice' = [txPrice EXCEPT ![c] = {}]
  /\ txHistory' = [txHistory EXCEPT ![c] = {}]
  /\ UNCHANGED <<args, error>>

\* await transaction.commit() and the return of { success: true, price, ... }.
Commit(c) ==
  /\ pc[c] = "commit"
  /\ CanCommit(c)
  /\ prices' = CommittedPrices(txPrice[c])
  /\ histories' = CommittedHistories(txHistory[c])
  /\ response' = Returned(txPrice[c], args[c].municipalityId)
  /\ Return(c)
  /\ UNCHANGED <<catalog, now, started>>

\* catch: await transaction.rollback(); throw new Error(errorMessage)
Rollback(c) ==
  /\ pc[c] = "rollback"
  /\ response' = Raised(error[c])
  /\ Return(c)
  /\ UNCHANGED <<catalog, tables, now, started>>

\* The first check of the call that fails, in the order of the code.
ValidationError(packageId, priceCents, municipalityId) ==
  IF PackageError(packageId) # NoError THEN PackageError(packageId)
  ELSE IF MunicipalityError(municipalityId) # NoError
    THEN MunicipalityError(municipalityId)
    ELSE AmountError(priceCents)

\* What a whole call of updatePackagePrice that no other call overlaps leaves:
\* the steps above, run from the first to the last with no other connection
\* open, give the tables, the clock and what the call returns or raises.
UpdateOutcomes(packageId, priceCents, municipalityId) ==
  IF ValidationError(packageId, priceCents, municipalityId) # NoError
    THEN {[prices |-> prices, histories |-> histories, now |-> now,
           response |-> Raised(ValidationError(packageId, priceCents,
                                               municipalityId))]}
    ELSE UNION {
      IF CreateRejected(existing, packageId, priceCents, municipalityId)
        THEN {[prices |-> prices, histories |-> histories, now |-> now,
               response |-> Raised(Err("UniqueConstraint", 0))]}
        ELSE LET newPrice == NewPrice(existing, packageId, priceCents,
                                      municipalityId) IN
             {[prices |-> CommittedPrices(newPrice),
               histories |-> CommittedHistories(
                  {CreatedHistory(packageId, priceCents, municipalityId, t)}),
               now |-> t,
               response |-> Returned(newPrice, municipalityId)] :
                t \in ClockReadings}
      : existing \in
          IF ActivePrices(packageId, municipalityId) = {} THEN {{}}
          ELSE {{r} : r \in ActivePrices(packageId, municipalityId)}}

\* A whole call of updatePackagePrice that no other call overlaps.
UpdatePackagePrice(packageId, priceCents, municipalityId) ==
  /\ \A c \in Slots : pc[c] = "idle"
  /\ started < MaxCalls
  /\ started' = started + 1
  /\ \E o \in UpdateOutcomes(packageId, priceCents, municipalityId) :
       /\ prices' = o.prices
       /\ histories' = o.histories
       /\ now' = o.now
       /\ response' = o.response
  /\ UNCHANGED <<catalog, txVars>>

\* ---------------------------------------------------------------- getCurrentPackagePrice
\* The price object getCurrentPackagePrice returns for the row priceRecord.
CurrentPriceInfo(priceRecord) ==
  [id |-> priceRecord.id,
   packageId |-> priceRecord.packageId,
   municipalityId |-> OrUndefined(priceRecord.municipalityId),
   priceCents |-> priceRecord.priceCents,
   priceDisplay |-> convertCentsToDisplay(priceRecord.priceCents),
   currency_code |-> priceRecord.currency_code,
   package |-> priceRecord.packageId,
   municipality |-> IF Truthy(priceRecord.municipalityId)
                      THEN {priceRecord.municipalityId[1]} ELSE {}]

\* A lookup that answers a miss on a municipality with the global price.
CurrentPriceResultsFallback(packageId, municipalityId) ==
  LET base == [NoResponse EXCEPT !.op = "getCurrentPackagePrice"]
      exact == ActivePrices(packageId, municipalityId)
      found == IF exact # {} THEN exact ELSE ActivePrices(packageId, Null) IN
  IF ~FindActivePackage(packageId)
    THEN {[base EXCEPT !.error = Err("PackageNotFound", packageId)]}
    ELSE IF found = {}
      THEN {[base EXCEPT !.error =
               [kind |-> "NoActivePrice", id |-> packageId,
                municipalityId |-> OrUndefined(municipalityId)]]}
      ELSE {[base EXCEPT !.success = TRUE, !.price = {CurrentPriceInfo(r)}] :
              r \in found}

\* A lookup that checks the municipality as updatePackagePrice does.
CurrentPriceResultsChecked(packageId, municipalityId) ==
  LET base == [NoResponse EXCEPT !.op = "getCurrentPackagePrice"]
      found == ActivePrices(packageId, municipalityId) IN
  IF ~FindActivePackage(packageId)
    THEN {[base EXCEPT !.error = Err("PackageNotFound", packageId)]}
    ELSE IF MunicipalityError(municipalityId) # NoError
      THEN {[base EXCEPT !.error = MunicipalityError(municipalityId)]}
      ELSE IF found = {}
        THEN {[base EXCEPT !.error =
                 [kind |-> "NoActivePrice", id |-> packageId,
                  municipalityId |-> OrUndefined(municipalityId)]]}
        ELSE {[base EXCEPT !.success = TRUE, !.price = {CurrentPriceInfo(r)}] :
                r \in found}

\* The results getCurrentPackagePrice(packageId, municipalityId) can return
\* in the current state (one for each row findOne may pick).
CurrentPriceResults(packageId, municipalityId) ==
  LET base == [NoResponse EXCEPT !.op = "getCurrentPackagePrice"]
      found == ActivePrices(packageId, municipalityId) IN
  IF ~FindActivePackage(packageId)
    THEN {[base EXCEPT !.error = Err("PackageNotFound", packageId)]}
    ELSE IF found = {}
      THEN {[base EXCEPT !.error =
               [kind |-> "NoActivePrice", id |-> packageId,
                municipalityId |-> OrUndefined(municipalityId)]]}
      ELSE {[base EXCEPT !.success = TRUE, !.price = {CurrentPriceInfo(r)}] :
              r \in found}

\* A read whose catch throws the error on, as updatePackagePrice's does.
CurrentPriceRethrown ==
  [NoResponse EXCEPT !.op = "getCurrentPackagePrice", !.raised = TRUE,
                     !.error = Err("DataStoreError", 0)]

\* catch (error): return { success: false, error: errorMessage }, when a
\* query of the call is failed by the store.
CurrentPriceCaught ==
  [NoResponse EXCEPT !.op = "getCurrentPackagePrice",
                     !.error = Err("DataStoreError", 0)]

\* A call of getCurrentPackagePrice: the result of its lookups, or what its
\* catch returns.
GetCurrentPrice ==
  /\ \/ \E packageId \in PackageInputs, municipalityId \in MunicipalityInputs :
          response' \in CurrentPriceResults(packageId, municipalityId)
     \/ response' = CurrentPriceCaught
  /\ UNCHANGED <<catalog, tables, now, started, txVars>>

\* ---------------------------------------------------------------- getPackagePriceHistory
\* new Date(year, 0, 1) on the model's clock.
StartDate(year) == year * TicksPerYear

\* One entry of the returned history.
HistoryEntry(record) ==
  [id |-> record.id,
   packageId |-> record.packageId,
   municipalityId |-> OrUndefined(record.municipalityId),
   priceCents |-> record.priceCents,
   priceDisplay |-> convertCentsToDisplay(record.priceCents),
   currency_code |-> record.currency_code,
   createdAt |-> record.createdAt,
   municipality |-> IF Truthy(record.municipalityId)
                      THEN {record.municipalityId[1]} ELSE {}]

\* A window that takes the first instant of the next year in ([Op.lte]).
HistoryRowsThroughEnd(packageId, year, municipalityId) ==
  {h \in histories : /\ h.packageId = packageId
                     /\ h.createdAt >= StartDate(year)
                     /\ h.createdAt <= StartDate(year + 1)
                     /\ h.municipalityId = WhereMunicipality(municipalityId)}

\* A where clause that leaves the municipality out.
HistoryRowsAnyMunicipality(packageId, year, municipalityId) ==
  {h \in histories : /\ h.packageId = packageId
                     /\ h.createdAt >= StartDate(year)
                     /\ h.createdAt < StartDate(year + 1)}

\* The rows whereClauseHistory matches.
HistoryRows(packageId, year, municipalityId) ==
  {h \in histories : /\ h.packageId = packageId
                     /\ h.createdAt >= StartDate(year)
                     /\ h.createdAt < StartDate(year + 1)
                     /\ h.municipalityId = WhereMunicipality(municipalityId)}

\* order: [['createdAt', 'DESC']]: the rows that may come first, those of
\* the latest createdAt.
Latest(rows) == {r \in rows : \A q \in rows : q.createdAt <= r.createdAt}

\* PriceHistory.findAll({ where, order }): every listing of the matching rows
\* that ORDER BY createdAt DESC allows (rows of equal createdAt come in the
\* order the engine happens to produce).
RECURSIVE FindAllHistory(_)
FindAllHistory(rows) ==
  IF rows = {} THEN {<<>>}
  ELSE UNION {{<<r>> \o s : s \in FindAllHistory(rows \ {r})} : r \in Latest(rows)}

\* The results getPackagePriceHistory(packageId, year, municipalityId) can
\* return in the current state.
PriceHistoryResults(packageId, year, municipalityId) ==
  LET base == [NoResponse EXCEPT !.op = "getPackagePriceHistory"] IN
  IF ~FindActivePackage(packageId)
    THEN {[base EXCEPT !.error = Err("PackageNotFound", packageId)]}
    ELSE IF Truthy(municipalityId) /\ ~FindActiveMunicipality(municipalityId[1])
      THEN {[base EXCEPT !.error = Err("MunicipalityNotFound", municipalityId[1])]}
      ELSE {[base EXCEPT !.success = TRUE,
                         !.history = {[i \in 1..Len(s) |-> HistoryEntry(s[i])]}] :
              s \in FindAllHistory(HistoryRows(packageId, year, municipalityId))}

\* catch (error): return { success: false, error: errorMessage }, when a
\* query of the call is failed by the store.
PriceHistoryCaught ==
  [NoResponse EXCEPT !.op = "getPackagePriceHistory",
                     !.error = Err("DataStoreError", 0)]

\* A call of getPackagePriceHistory: the result of its lookups, or what its
\* catch returns.
GetPriceHistory ==
  /\ \/ \E packageId \in PackageInputs, year \in Years,
           municipalityId \in MunicipalityInputs :
          response' \in PriceHistoryResults(packageId, year, municipalityId)
     \/ response' = PriceHistoryCaught
  /\ UNCHANGED <<catalog, tables, now, started, txVars>>

\* ---------------------------------------------------------------- specification
\* The steps of the updatePackagePrice calls in progress.
Step ==
  \/ \E c \in Slots : FindPackage(c)
  \/ \E c \in Slots : FindMunicipality(c)
  \/ \E c \in Slots : FindPrice(c)
  \/ \E c \in Slots : WritePrice(c)
  \/ \E c \in Slots : WriteHistory(c)
  \/ \E c \in Slots : Commit(c)
  \/ \E c \in Slots : Rollback(c)

\* Callers of updatePackagePrice that may overlap.
Next ==
  \/ \E c \in Slots, packageId \in PackageInputs, priceCents \in Amounts,
        municipalityId \in MunicipalityInputs :
       Begin(c, packageId, priceCents, municipalityId)
  \/ Step

Spec == Init /\ [][Next]_vars

\* The event loop runs every continuation that is ready: a call in progress
\* whose next step can be taken takes it.
SpecLive == Spec /\ WF_vars(Step)

\* Calls of updatePackagePrice one after the other, and readers.
NextRead ==
  \/ \E packageId \in PackageInputs, priceCents \in Amounts,
        municipalityId \in MunicipalityInputs :
       UpdatePackagePrice(packageId, priceCents, municipalityId)
  \/ GetCurrentPrice
  \/ GetPriceHistory

SpecRead == Init /\ [][NextRead]_vars

\* The catalog is kept outside the service: whoever keeps it clears the
\* is_active column of a municipality between two calls.
DeactivateMunicipality(id) ==
  /\ \A c \in Slots : pc[c] = "idle"
  /\ municipalities[id].is_active
  /\ municipalities' = [municipalities EXCEPT ![id].is_active = FALSE]
  /\ response' = NoResponse
  /\ UNCHANGED <<packages, tables, now, started, txVars>>

\* Calls one after the other and readers, while the catalog changes.
NextCatalog ==
  \/ NextRead
  \/ \E id \in DOMAIN municipalities : DeactivateMunicipality(id)

SpecCatalog == Init /\ [][NextCatalog]_vars

\* ---------------------------------------------------------------- HTTP endpoints
\* Path, query and body parameters of a request: absent (Null), the whole
\* number n (Some(n)) or a number that is not whole (<<n, d>> for n.d).
\* Years are counted from 1900, where the clock of the model starts.
PackageParams == {0} \cup PackageInputs
NotWhole == <<12, 5>>
PriceParams == {Null, NotWhole} \cup {Some(a) : a \in Amounts}
YearParams == {Null, Some(-1)} \cup {Some(y) : y \in Years}

\* req.query.municipalityId, the parameter the price-history controller
\* parses: no documented parameter, so absent unless a client adds it.
CamelCaseParams == {Null, Some(1)}

\* A test that lets 0 through.
isNonNegativeInteger(value) == Len(value) = 1 /\ value[1] >= 0

\* Number.isInteger(num) && num > 0; Number(undefined) is NaN.
isPositiveInteger(value) == Len(value) = 1 /\ value[1] > 0

\* Number.isInteger(year) && year >= 1900 && year <= new Date().getFullYear() + 10
isValidYear(value) == value >= 0 /\ value <= (now \div TicksPerYear) + 10

\* res.status(400).json({ error, code }) of a middleware that does not call
\* next().
BadRequest(op, code) ==
  [NoResponse EXCEPT !.op = op, !.status = 400, !.error = Err(code, 0)]

\* The middlewares answer with a code or pass the request on ("next").
validatePackageId(packageId) ==
  IF ~isPositiveInteger(Some(packageId)) THEN "INVALID_PACKAGE_ID" ELSE "next"

validatePriceUpdate(price_cents, municipality_id) ==
  IF price_cents = Null THEN "MISSING_PRICE_CENTS"
  ELSE IF ~isPositiveInteger(price_cents) THEN "INVALID_PRICE_CENTS"
  ELSE IF municipality_id # Null /\ ~isPositiveInteger(municipality_id)
    THEN "INVALID_MUNICIPALITY_ID"
  ELSE "next"

\* A query parameter is text, and "0" is truthy: any municipality_id that is
\* present is tested.
validateMunicipalityQuery(municipality_id) ==
  IF municipality_id # Null /\ ~isPositiveInteger(municipality_id)
    THEN "INVALID_MUNICIPALITY_ID"
  ELSE "next"

validatePriceHistoryQuery(year, municipality_id) ==
  IF year = Null THEN "MISSING_YEAR"
  ELSE IF ~isValidYear(year[1]) THEN "INVALID_YEAR"
  ELSE IF municipality_id # Null /\ ~isPositiveInteger(municipality_id)
    THEN "INVALID_MUNICIPALITY_ID"
  ELSE "next"

\* router.put / router.get: the answer of the first middleware of the route
\* that does not pass the request on, "next" when the controller is reached.
Route(first, second) == IF first # "next" THEN first ELSE second

\* errorMessage.includes('not found') || errorMessage.includes('inactive')
NotFoundMessages == {"PackageNotFound", "MunicipalityNotFound"}

\* 'Internal server error occurred while ...', the body of every 500.
InternalServerError == Err("InternalServerError", 0)

\* updatePrice: what the controller answers to the result of the service.
UpdatePriceReply(result) ==
  LET base == [NoResponse EXCEPT !.op = "PUT price"] IN
  IF result.raised
    THEN IF result.error.kind \in NotFoundMessages
           THEN [base EXCEPT !.status = 404, !.error = result.error]
           ELSE [base EXCEPT !.status = 500, !.error = InternalServerError]
    ELSE IF result.success
      THEN [base EXCEPT !.status = 200, !.success = TRUE,
                        !.price = result.price]
      ELSE [base EXCEPT !.status = 500, !.error = InternalServerError]

\* The store fails a query of updatePackagePrice: its catch rolls back and
\* throws the error on.
UpdatePriceFailed == Raised(Err("DataStoreError", 0))

\* What a PUT /api/packages/:packageId/price request leaves: the tables, the
\* clock, the answer, and whether updatePackagePrice was called (calls).
HttpUpdatePriceOutcomes(packageId, price_cents, municipality_id) ==
  LET answer == Route(validatePackageId(packageId),
                      validatePriceUpdate(price_cents, municipality_id)) IN
  IF answer # "next"
    THEN {[prices |-> prices, histories |-> histories, now |-> now,
           calls |-> 0, response |-> BadRequest("PUT price", answer)]}
    ELSE {[prices |-> o.prices, histories |-> o.histories, now |-> o.now,
           calls |-> 1, response |-> UpdatePriceReply(o.response)] :
            o \in UpdateOutcomes(packageId, price_cents[1],
                                 OrUndefined(municipality_id))}
         \cup {[prices |-> prices, histories |-> histories, now |-> now,
                calls |-> 1,
                response |-> UpdatePriceReply(UpdatePriceFailed)]}

\* PUT /api/packages/:packageId/price
HttpUpdatePrice(packageId, price_cents, municipality_id) ==
  /\ \A c \in Slots : pc[c] = "idle"
  /\ \E o \in HttpUpdatePriceOutcomes(packageId, price_cents,
                                      municipality_id) :
       /\ started + o.calls <= MaxCalls
       /\ started' = started + o.calls
       /\ prices' = o.prices
       /\ histories' = o.histories
       /\ now' = o.now
       /\ response' = o.response
  /\ UNCHANGED <<catalog, txVars>>

\* getCurrentPrice: what the controller answers to the result of the service.
CurrentPriceReply(result) ==
  LET base == [NoResponse EXCEPT !.op = "GET price"] IN
  IF result.raised
    THEN [base EXCEPT !.status = 500, !.error = InternalServerError]
    ELSE IF result.success /\ result.price # {}
      THEN [base EXCEPT !.status = 200, !.success = TRUE,
                        !.price = result.price]
      ELSE [base EXCEPT !.status = 404, !.error = result.error]

\* The answers to GET /api/packages/:packageId/price?municipality_id=
HttpCurrentPriceReplies(packageId, municipality_id) ==
  LET answer == Route(validatePackageId(packageId),
                      validateMunicipalityQuery(municipality_id)) IN
  IF answer # "next" THEN {BadRequest("GET price", answer)}
  ELSE {CurrentPriceReply(result) :
          result \in CurrentPriceResults(packageId, municipality_id)
                       \cup {CurrentPriceCaught}}

HttpGetCurrentPrice ==
  /\ \E packageId \in PackageParams, municipality_id \in MunicipalityInputs :
       response' \in HttpCurrentPriceReplies(packageId, municipality_id)
  /\ UNCHANGED <<catalog, tables, now, started, txVars>>

\* getPriceHistory: what the controller answers to the result of the service.
PriceHistoryReply(result) ==
  LET base == [NoResponse EXCEPT !.op = "GET price-history"] IN
  IF result.raised
    THEN [base EXCEPT !.status = 500, !.error = InternalServerError]
    ELSE IF result.success /\ result.history # {}
      THEN [base EXCEPT !.status = 200, !.success = TRUE,
                        !.history = result.history]
      ELSE [base EXCEPT !.status = 404, !.error = result.error]

\* req.query.municipality_id ? parseInt(req.query.municipalityId, 10)
\*                           : undefined
\* parseInt of a parameter that is absent is NaN, which the service takes for
\* no municipality as it does undefined: Null stands for both.
HistoryMunicipalityId(municipality_id, municipalityId) ==
  IF municipality_id # Null THEN municipalityId ELSE Null

\* The answers to
\* GET /api/packages/:packageId/price-history?year=&municipality_id=
HttpPriceHistoryReplies(packageId, year, municipality_id, municipalityId) ==
  LET answer == Route(validatePackageId(packageId),
                      validatePriceHistoryQuery(year, municipality_id)) IN
  IF answer # "next" THEN {BadRequest("GET price-history", answer)}
  ELSE {PriceHistoryReply(result) :
          result \in PriceHistoryResults(packageId, year[1],
                        HistoryMunicipalityId(municipality_id, municipalityId))
                       \cup {PriceHistoryCaught}}

HttpGetPriceHistory ==
  /\ \E packageId \in PackageParams, year \in YearParams,
        municipality_id \in MunicipalityInputs,
        municipalityId \in CamelCaseParams :
       response' \in HttpPriceHistoryReplies(packageId, year, municipality_id,
                                             municipalityId)
  /\ UNCHANGED <<catalog, tables, now, started, txVars>>

\* Requests served one after the other.
NextHttp ==
  \/ \E packageId \in PackageParams, price_cents \in PriceParams,
        municipality_id \in MunicipalityInputs :
       HttpUpdatePrice(packageId, price_cents, municipality_id)
  \/ HttpGetCurrentPrice
  \/ HttpGetPriceHistory

SpecHttp == Init /\ [][NextHttp]_vars

\* ---------------------------------------------------------------- properties
\* The key of a row: its package and its municipality, NULL being one value.
Key(row) == <<row.packageId, row.municipalityId>>

\* The key a call's arguments name.
CallKey(a) == <<a.packageId, OrUndefined(a.municipalityId)>>

ActiveRows(key) == {r \in prices : r.is_active /\ Key(r) = key}

HistoryOf(key) == {h \in histories : Key(h) = key}

\* The call passes the three checks of updatePackagePrice.
Valid(a) == ValidationError(a.packageId, a.priceCents, a.municipalityId) = NoError

\* Caller c made a call and it is over.
Finished(c) == pc[c] = "idle" /\ args[c] # NoArgs

\* Caller c found no row and inserted one in its transaction.
Inserted(c) == existingPrice[c] = {} /\ txPrice[c] # {}

\* C1: in every reachable state, whatever the interleaving of the calls, at
\* most one row of prices is active for a (packageId, municipalityId) key,
\* the NULL municipality being one key value.
AtMostOneActivePricePerKey ==
  \A r, q \in prices :
    (r.is_active /\ q.is_active /\ Key(r) = Key(q)) => r = q

\* Two calls on the global key of package 1 have committed, one of them
\* made with the municipalityId 0, and one row is active for the key.
GlobalPriceSetTwice ==
  /\ Cardinality(ActiveRows(<<1, Null>>)) = 1
  /\ Cardinality(HistoryOf(<<1, Null>>)) = 2
  /\ \E c \in Slots : /\ Finished(c) /\ error[c] = NoError
                       /\ args[c].municipalityId = Some(0)

\* C2: two valid calls on the same key (the global key included) never both
\* find no row and both insert one; when both are over, exactly one active
\* row of prices has that key.
ConcurrentCallsInsertOnce ==
  \A c, d \in Slots :
    (c # d /\ Valid(args[c]) /\ Valid(args[d])
       /\ CallKey(args[c]) = CallKey(args[d]))
    => /\ ~(Inserted(c) /\ Inserted(d))
       /\ (Finished(c) /\ Finished(d))
            => Cardinality(ActiveRows(CallKey(args[c]))) = 1

\* Two overlapping calls on the global key of package 1, started with no
\* row for it, are over: one was refused the write lock, the other inserted
\* the one row there is.
OverlappingGlobalCallsOver ==
  \E c, d \in Slots :
    /\ c # d /\ Finished(c) /\ Finished(d)
    /\ CallKey(args[c]) = <<1, Null>> /\ CallKey(args[d]) = <<1, Null>>
    /\ error[c].kind = "SQLITE_BUSY" /\ error[d] = NoError
    /\ Cardinality(prices) = 1 /\ Cardinality(histories) = 1
    /\ Cardinality(ActiveRows(<<1, Null>>)) = 1

\* The call of caller c ends in this step.
Ends(c) == pc[c] # "idle" /\ pc'[c] = "idle"

\* The rows of prices with a key, active or not.
RowsOf(key) == {r \in prices : Key(r) = key}

\* C3: a call either commits both the change of its prices row and exactly
\* one new price_histories row, or raises and leaves both tables as they
\* were; no step commits one of the two writes alone.
AllOrNothing ==
  [][/\ \A c \in Slots :
          Ends(c) =>
            \/ /\ response'.success
               /\ histories \subseteq histories'
               /\ Cardinality(histories' \ histories) = 1
               /\ \A h \in histories' \ histories :
                    /\ Key(h) = CallKey(args[c])
                    /\ h.priceCents = args[c].priceCents
               /\ \E r \in prices' :
                    /\ r.is_active
                    /\ Key(r) = CallKey(args[c])
                    /\ r.priceCents = args[c].priceCents
                    /\ {q \in prices' : q.id # r.id} = {q \in prices : q.id # r.id}
            \/ /\ response'.raised
               /\ prices' = prices
               /\ histories' = histories
     /\ (\A c \in Slots : ~Ends(c)) => (prices' = prices /\ histories' = histories)
    ]_vars

\* A call has just committed its row and its history row, after another
\* caller's call was rolled back on SQLITE_BUSY.
CommittedAfterRollback ==
  /\ response.success
  /\ Cardinality(prices) = 1
  /\ Cardinality(histories) = 1
  /\ \E c \in Slots : Finished(c) /\ error[c].kind = "SQLITE_BUSY"

ValidationKinds == {"PackageNotFound", "MunicipalityNotFound", "NegativePrice"}

\* C4: a call whose package is missing or inactive, whose given municipality
\* is missing or inactive, or whose amount is negative writes nothing in its
\* transaction and ends raising that error with both tables as they were.
ValidationAbortsBeforeWrite ==
  [][\A c \in Slots :
       (pc[c] # "idle" /\ ~Valid(args[c])) =>
         /\ txPrice[c] = {}
         /\ txHistory[c] = {}
         /\ lock[c] # "RESERVED"
         /\ Ends(c) => /\ response'.raised
                       /\ response'.error.kind \in ValidationKinds
                       /\ prices' = prices
                       /\ histories' = histories
    ]_vars

\* A call with a negative amount has just raised, and the row and the history
\* row an earlier call committed are the only ones.
NegativeAmountRaised ==
  /\ response.raised
  /\ response.error.kind = "NegativePrice"
  /\ Cardinality(prices) = 1
  /\ Cardinality(histories) = 1

\* The keys a call can name.
Keys == {<<p, m>> : p \in PackageInputs, m \in {OrUndefined(x) : x \in MunicipalityInputs}}

\* C5: a call that returns adds exactly one row to the history of its key,
\* whether it created the prices row or updated it, and no other step changes
\* the number of history rows of a key (so n returned calls leave n rows).
HistoryGrowsByOne ==
  [][\A key \in Keys :
       Cardinality({h \in histories' : Key(h) = key}) =
         Cardinality(HistoryOf(key)) +
           (IF \E c \in Slots : /\ Ends(c) /\ response'.success
                                /\ CallKey(args[c]) = key
              THEN 1 ELSE 0)
    ]_vars

\* The second call on the key (package 1, municipality 1) has just returned:
\* it updated the row in place and the key has two history rows.
SecondHistoryRowOfMunicipalKey ==
  /\ response.success
  /\ Cardinality(RowsOf(<<1, Some(1)>>)) = 1
  /\ Cardinality(HistoryOf(<<1, Some(1)>>)) = 2

\* C6: a call on a key that has a row updates it in place: it returns the id
\* of that row, the key keeps one row, the row carries the amount of the
\* call, and no other step changes the rows of the key.
UpdatesInPlace ==
  [][\A key \in Keys :
       /\ Cardinality(RowsOf(key)) <= 1
       /\ IF \E c \in Slots : Ends(c) /\ response'.success /\ CallKey(args[c]) = key
            THEN \E c \in Slots :
                   /\ Ends(c)
                   /\ Cardinality({r \in prices' : Key(r) = key}) = 1
                   /\ \A r \in prices' : Key(r) = key =>
                        /\ r.priceCents = args[c].priceCents
                        /\ \A i \in response'.price : i.id = r.id
                        /\ response'.price # {}
                        /\ \A q \in RowsOf(key) : q.id = r.id
            ELSE {r \in prices' : Key(r) = key} = RowsOf(key)
    ]_vars

\* The second call on the global key of package 1 has just returned the id
\* of the one row, which now carries its amount 0 in place of 2999.
GlobalPriceReplaced ==
  /\ response.success
  /\ \E i \in response.price : i.id = 1 /\ i.priceCents = 0
  /\ RowsOf(<<1, Null>>) # {}
  /\ \A r \in RowsOf(<<1, Null>>) : r.id = 1 /\ r.priceCents = 0
  /\ \E h \in HistoryOf(<<1, Null>>) : h.priceCents = 2999

BasePriceWhenNoMunicipalPrice ==
  (response.op = "getCurrentPackagePrice" /\ response.error.kind = "NoActivePrice")
    => ActiveRows(<<response.error.id, Null>>) = {}

\* C9: after updatePackagePrice(P, a, M) returns, getCurrentPackagePrice(P, M)
\* returns success with the amount a and the id the call returned, and its
\* result stays the same over every step that is not a returning
\* updatePackagePrice on the same key: calls on other keys, calls that raise
\* and reads.
CurrentPriceIsLastSet ==
  [][\A packageId \in PackageInputs, municipalityId \in MunicipalityInputs :
       IF /\ response'.op = "updatePackagePrice"
          /\ response'.success
          /\ \E priceCents \in Amounts :
               UpdatePackagePrice(packageId, priceCents, municipalityId)
         THEN \A priceCents \in Amounts :
                UpdatePackagePrice(packageId, priceCents, municipalityId) =>
                  \A res \in CurrentPriceResults(packageId, municipalityId)' :
                    /\ res.success
                    /\ res.price # {}
                    /\ \A j \in res.price :
                         /\ j.priceCents = priceCents
                         /\ \A i \in response'.price : j.id = i.id
         ELSE CurrentPriceResults(packageId, municipalityId)' =
                CurrentPriceResults(packageId, municipalityId)
    ]_vars

\* getCurrentPackagePrice(1, 1) has just returned the 2999 set for
\* municipality 1, after the global price of package 1 was set to 0.
MunicipalPriceKept ==
  /\ response.op = "getCurrentPackagePrice"
  /\ response.success
  /\ \E j \in response.price : j.municipality = {1} /\ j.priceCents = 2999
  /\ \E r \in ActiveRows(<<1, Null>>) : r.priceCents = 0 /\ r.id = 2

\* C10: getPackagePriceHistory returns the rows in descending order of
\* createdAt and its first entry is the most recent price-set of the key in
\* the year, the row inserted last.
FirstEntryIsMostRecentSet ==
  (response.op = "getPackagePriceHistory" /\ response.success) =>
    /\ \A i, j \in 1..Len(Listing(response)) :
         i < j => Listing(response)[i].createdAt >= Listing(response)[j].createdAt
    /\ \A j \in 2..Len(Listing(response)) :
         Listing(response)[1].id > Listing(response)[j].id

\* The history rows of a key created in a year: from the first instant of
\* the year on, before the first instant of the next.
InYear(key, year) ==
  {h \in HistoryOf(key) : /\ year * TicksPerYear <= h.createdAt
                          /\ h.createdAt < (year + 1) * TicksPerYear}

\* The entries of a returned listing.
Entries(history) == {history[i] : i \in 1..Len(history)}

\* C11: getPackagePriceHistory(P, Y, M) returns all and only the history
\* rows of the key created from the first instant of Y on and before the
\* first instant of Y+1, each once.
HistoryCoversYearWindow ==
  \A packageId \in PackageInputs, year \in Years,
     municipalityId \in MunicipalityInputs :
    \A res \in PriceHistoryResults(packageId, year, municipalityId) :
      res.success =>
        LET rows == InYear(<<packageId, OrUndefined(municipalityId)>>, year) IN
        /\ {e.id : e \in Entries(Listing(res))} = {h.id : h \in rows}
        /\ Len(Listing(res)) = Cardinality(rows)

\* getPackagePriceHistory(1, 0) has just returned one entry, created at the
\* first instant of year 0, while the global history of package 1 has a row
\* created at the first instant of year 1.
YearBoundaryRowsListed ==
  /\ response.op = "getPackagePriceHistory"
  /\ response.success
  /\ Len(Listing(response)) = 1
  /\ Listing(response)[1].packageId = 1
  /\ Listing(response)[1].municipalityId = Null
  /\ Listing(response)[1].createdAt = 0
  /\ \E h \in HistoryOf(<<1, Null>>) : h.createdAt = TicksPerYear

Reads == {"getCurrentPackagePrice", "getPackagePriceHistory"}

\* C13: getCurrentPackagePrice and getPackagePriceHistory never raise: a
\* failure (package or municipality not active, no price row, an error of
\* the store) is returned with success=false and an error and without a
\* price or a list; a result with success=true carries the price, or the
\* history list, and no error.
ReadsReturnFailures ==
  response.op \in Reads =>
    /\ ~response.raised
    /\ response.success =>
         /\ response.error = NoError
         /\ response.op = "getCurrentPackagePrice" =>
              Cardinality(response.price) = 1
         /\ response.op = "getPackagePriceHistory" =>
              Cardinality(response.history) = 1
    /\ ~response.success =>
         /\ response.error.kind \in {"PackageNotFound", "MunicipalityNotFound",
                                     "NoActivePrice", "DataStoreError"}
         /\ response.price = {}
         /\ response.history = {}

\* getCurrentPackagePrice has just returned the error of a failed query,
\* with a price row in the table.
StoreErrorReturned ==
  /\ response.op = "getCurrentPackagePrice"
  /\ ~response.success
  /\ ~response.raised
  /\ response.error.kind = "DataStoreError"
  /\ prices # {}

\* C14: updatePackagePrice reports a validation failure only by raising:
\* every call ends either returning success or raising, never returning a
\* failure; for a package that is not active it raises the error naming the
\* package id, and for an active package with a given municipality that is
\* not active the error naming the municipality id.
ValidationFailuresAreRaised ==
  [][\A c \in Slots :
       Ends(c) =>
         /\ response'.op = "updatePackagePrice"
         /\ response'.success # response'.raised
         /\ response'.raised => (response'.price = {} /\ response'.error # NoError)
         /\ ~FindActivePackage(args[c].packageId) =>
              /\ response'.raised
              /\ response'.error.kind = "PackageNotFound"
              /\ response'.error.id = args[c].packageId
         /\ (/\ FindActivePackage(args[c].packageId)
             /\ Truthy(args[c].municipalityId)
             /\ ~FindActiveMunicipality(args[c].municipalityId[1])) =>
              /\ response'.raised
              /\ response'.error.kind = "MunicipalityNotFound"
              /\ response'.error.id = args[c].municipalityId[1]
    ]_vars

\* A call on the active package 1 with the inactive municipality 2 has just
\* raised the error naming municipality 2.
InactiveMunicipalityRaised ==
  /\ response.raised
  /\ ~response.success
  /\ response.error.kind = "MunicipalityNotFound"
  /\ response.error.id = 2
  /\ \E c \in Slots : /\ Finished(c) /\ error[c] = response.error
                       /\ args[c].packageId = 1

\* C15: updatePackagePrice checks the package, then the municipality, then
\* the amount: a call with several invalid inputs raises the error of the
\* first check that fails.
FirstFailingCheckIsReported ==
  [][\A c \in Slots :
       Ends(c) =>
         IF ~FindActivePackage(args[c].packageId)
           THEN response'.error.kind = "PackageNotFound"
           ELSE IF /\ Truthy(args[c].municipalityId)
                   /\ ~FindActiveMunicipality(args[c].municipalityId[1])
             THEN response'.error.kind = "MunicipalityNotFound"
             ELSE args[c].priceCents < 0 =>
                    response'.error.kind = "NegativePrice"
    ]_vars

\* A call with an inactive package, an inactive municipality and a negative
\* amount has just raised the package's error.
AllInvalidRaisedPackageError ==
  /\ response.raised
  /\ response.error.kind = "PackageNotFound"
  /\ \E c \in Slots : /\ Finished(c) /\ error[c] = response.error
                       /\ args[c].packageId = 2
                       /\ args[c].municipalityId = Some(2)
                       /\ args[c].priceCents = -1

\* C17: a price-history request that carries the municipality_id query
\* parameter is filtered by that location: every entry of a 200 answer is a
\* row of that municipality.
HistoryRequestFilteredByLocation ==
  \A packageId \in PackageParams, year \in YearParams,
     municipality_id \in MunicipalityInputs \ {Null},
     municipalityId \in CamelCaseParams :
    \A reply \in HttpPriceHistoryReplies(packageId, year, municipality_id,
                                         municipalityId) :
      reply.status = 200 =>
        \A e \in Entries(Listing(reply)) : e.municipalityId = municipality_id

\* The codes of the answers of the validation middlewares.
ValidationCodes ==
  {"INVALID_PACKAGE_ID", "MISSING_PRICE_CENTS", "INVALID_PRICE_CENTS",
   "INVALID_MUNICIPALITY_ID", "MISSING_YEAR", "INVALID_YEAR"}

\* C18: on every endpoint a missing package or municipality is answered 404,
\* a request that fails input validation 400, and a failure of the data
\* store or any other internal failure 500.
ErrorsAnsweredByKind ==
  response.status # 0 =>
    /\ response.error.kind \in NotFoundMessages => response.status = 404
    /\ response.error.kind \in ValidationCodes => response.status = 400
    /\ response.error.kind \in {"DataStoreError", "InternalServerError"}
         => response.status = 500

\* C19: price_histories is append-only: no step updates or deletes a row, so
\* every row of a state is there in the next state, and so in every later
\* one, with the same id, key, amount, currency and createdAt.
HistoryIsAppendOnly ==
  [][/\ histories \subseteq histories'
     /\ \A h \in histories, g \in histories' : g.id = h.id => g = h
    ]_vars

\* The global price of package 1 was set twice with different amounts: the
\* first history row still carries the first amount, the prices row the
\* second.
FirstHistoryRowKeptItsAmount ==
  \E h, g \in HistoryOf(<<1, Null>>) :
    /\ h.id = 1 /\ g.id = 2
    /\ h.priceCents # g.priceCents
    /\ \A r \in ActiveRows(<<1, Null>>) : r.priceCents = g.priceCents
    /\ ActiveRows(<<1, Null>>) # {}

\* C20: the history row a call that returns appends carries the packageId,
\* the municipalityId (null when none was given), and the amount of the call
\* and the currency 'SEK', and the active prices row of the key carries the
\* same amount and currency once the call is over.
HistoryRowCarriesTheCall ==
  [][\A c \in Slots :
       (Ends(c) /\ response'.success) =>
         /\ Cardinality(histories' \ histories) = 1
         /\ \A h \in histories' \ histories :
              /\ h.packageId = args[c].packageId
              /\ h.municipalityId = OrUndefined(args[c].municipalityId)
              /\ h.priceCents = args[c].priceCents
              /\ h.currency_code = "SEK"
              /\ \E r \in prices' :
                   /\ r.is_active
                   /\ Key(r) = Key(h)
                   /\ r.priceCents = h.priceCents
                   /\ r.currency_code = h.currency_code
              /\ \A r \in prices' :
                   (r.is_active /\ Key(r) = Key(h)) =>
                     /\ r.priceCents = h.priceCents
                     /\ r.currency_code = h.currency_code
    ]_vars

\* A call setting 2999 for package 1 in municipality 1 has just returned:
\* the newest history row and the prices row of that key both carry 2999 SEK.
MunicipalCallRecorded ==
  /\ response.success
  /\ \E c \in Slots : /\ Finished(c) /\ error[c] = NoError
                       /\ args[c] = [packageId |-> 1, priceCents |-> 2999,
                                     municipalityId |-> Some(1)]
  /\ \E h \in HistoryOf(<<1, Some(1)>>) :
       /\ h.id = Max({g.id : g \in histories})
       /\ h.priceCents = 2999 /\ h.currency_code = "SEK"
  /\ \E r \in ActiveRows(<<1, Some(1)>>) :
       r.priceCents = 2999 /\ r.currency_code = "SEK"

\* C21: updatePackagePrice accepts every amount that is not negative, 0
\* included: for an active package (and an active municipality if one is
\* given) the call returns and leaves a prices row and a new history row
\* with that amount, and only an amount below 0 is rejected.
NonNegativeAmountsAccepted ==
  \A packageId \in PackageInputs, priceCents \in Amounts,
     municipalityId \in MunicipalityInputs :
    (/\ PackageError(packageId) = NoError
     /\ MunicipalityError(municipalityId) = NoError) =>
      \A o \in UpdateOutcomes(packageId, priceCents, municipalityId) :
        IF priceCents < 0
          THEN /\ o.response.raised
               /\ o.response.error.kind = "NegativePrice"
               /\ o.prices = prices /\ o.histories = histories
          ELSE /\ o.response.success
               /\ \E r \in o.prices :
                    /\ r.is_active
                    /\ Key(r) = <<packageId, OrUndefined(municipalityId)>>
                    /\ r.priceCents = priceCents
               /\ \E h \in o.histories \ histories :
                    /\ Key(h) = <<packageId, OrUndefined(municipalityId)>>
                    /\ h.priceCents = priceCents

\* A call with the amount 0 has just returned: the prices row of package 1
\* and its newest history row carry 0.
ZeroAmountStored ==
  /\ response.op = "updatePackagePrice"
  /\ response.success
  /\ \E p \in response.price : p.priceCents = 0 /\ p.packageId = 1
  /\ \E r \in prices : r.is_active /\ r.packageId = 1 /\ r.priceCents = 0
  /\ \E h \in histories :
       /\ h.id = Max({g.id : g \in histories})
       /\ h.packageId = 1 /\ h.priceCents = 0

\* The display amount d stands for the stored amount n divided by 100 with
\* two decimals.
Displays(d, n) ==
  /\ d.hundredths \in 0..99
  /\ d.units * 100 + d.hundredths = n

\* C22: the display amount updatePackagePrice, getCurrentPackagePrice and
\* getPackagePriceHistory return is the stored amount divided by 100 with
\* two decimals (2999 gives 29.99, 0 gives 0.00), and the stored amount
\* stays a whole number of minor units.
DisplayIsStoredAmountOverHundred ==
  /\ \A p \in response.price :
       /\ Displays(p.priceDisplay, p.priceCents)
       /\ \E r \in prices : r.id = p.id /\ r.priceCents = p.priceCents
  /\ \A e \in Entries(Listing(response)) :
       /\ Displays(e.priceDisplay, e.priceCents)
       /\ \E h \in histories : h.id = e.id /\ h.priceCents = e.priceCents
  /\ \A r \in prices \cup histories : r.priceCents \in Nat

\* getPackagePriceHistory has just listed a row of 2999 as 29.99 and a row
\* of 0 as 0.00.
BothAmountsDisplayed ==
  /\ response.op = "getPackagePriceHistory"
  /\ \E e, f \in Entries(Listing(response)) :
       /\ e.priceCents = 2999
       /\ e.priceDisplay = [units |-> 29, hundredths |-> 99]
       /\ f.priceCents = 0
       /\ f.priceDisplay = [units |-> 0, hundredths |-> 0]

\* C23: no call blocks for ever: every updatePackagePrice call that starts
\* is over at some later time, committed and returned or rolled back and
\* raised, also while another call on the same key is in progress.
EveryCallEnds ==
  \A c \in Slots : (pc[c] # "idle") ~> (pc[c] = "idle")

\* A call on the global key of package 1 is ready to commit and has to wait:
\* another call on that key has read and still holds its SHARED lock.
CommitWaitsForReader ==
  \E c, d \in Slots :
    /\ c # d
    /\ pc[c] = "commit" /\ ~CanCommit(c)
    /\ lock[d] = "SHARED"
    /\ CallKey(args[c]) = <<1, Null>> /\ CallKey(args[d]) = <<1, Null>>

\* C24: whenever a municipalityId is present in a call of updatePackagePrice,
\* whatever its value (0 included), and it names no active municipality, the
\* call raises 'municipality not found or inactive' and is never carried
\* out as a price-set of the global key.
PresentMunicipalityMustBeActive ==
  \A packageId \in PackageInputs, priceCents \in Amounts,
     municipalityId \in MunicipalityInputs \ {Null} :
    (/\ FindActivePackage(packageId)
     /\ ~FindActiveMunicipality(municipalityId[1])) =>
      \A o \in UpdateOutcomes(packageId, priceCents, municipalityId) :
        /\ o.response.raised
        /\ o.response.error.kind = "MunicipalityNotFound"
        /\ o.prices = prices
        /\ o.histories = histories

\* C25: the lookups of getCurrentPackagePrice fail only with 'package not
\* found or inactive' or 'no active price found': with the package active and
\* an active prices row of the exact key the call succeeds, also when the
\* municipality of the key is no longer active, while updatePackagePrice and
\* getPackagePriceHistory fail for that municipality.
CurrentPriceIgnoresMunicipalityState ==
  \A packageId \in PackageInputs, municipalityId \in MunicipalityInputs :
    /\ \A res \in CurrentPriceResults(packageId, municipalityId) :
         /\ ~res.success =>
              res.error.kind \in {"PackageNotFound", "NoActivePrice"}
         /\ (/\ FindActivePackage(packageId)
             /\ ActiveRows(<<packageId, OrUndefined(municipalityId)>>) # {})
              => res.success
    /\ (/\ FindActivePackage(packageId)
        /\ MunicipalityError(municipalityId) # NoError) =>
         /\ \A priceCents \in Amounts :
              \A o \in UpdateOutcomes(packageId, priceCents, municipalityId) :
                /\ o.response.raised
                /\ o.response.error.kind = "MunicipalityNotFound"
         /\ \A year \in Years :
              \A res \in PriceHistoryResults(packageId, year, municipalityId) :
                /\ ~res.success
                /\ res.error.kind = "MunicipalityNotFound"

\* getCurrentPackagePrice(1, 1) has just returned the price set for
\* municipality 1, which has been deactivated since.
PriceOfDeactivatedMunicipalityReturned ==
  /\ response.op = "getCurrentPackagePrice"
  /\ response.success
  /\ \E p \in response.price : p.municipalityId = Some(1)
  /\ ~municipalities[1].is_active

\* C26: a PUT price request whose price_cents is missing, zero, negative or
\* not a whole number is answered 400 by the validation middleware and does
\* not reach updatePackagePrice: no prices row and no history row is written.
InvalidPriceCentsAnswered400 ==
  \A packageId \in PackageParams, price_cents \in PriceParams,
     municipality_id \in MunicipalityInputs :
    (\/ price_cents = Null
     \/ Len(price_cents) > 1
     \/ price_cents[1] <= 0) =>
      \A o \in HttpUpdatePriceOutcomes(packageId, price_cents,
                                       municipality_id) :
        /\ o.response.status = 400
        /\ o.response.error.kind \in ValidationCodes
        /\ o.calls = 0
        /\ o.prices = prices
        /\ o.histories = histories

\* A PUT price request has just been refused for its price_cents after
\* another one had set the price of package 1, whose rows are as they were.
PriceCentsRefusedAfterPriceSet ==
  /\ response.op = "PUT price"
  /\ response.status = 400
  /\ response.error.kind = "INVALID_PRICE_CENTS"
  /\ started = 1
  /\ Cardinality(prices) = 1
  /\ Cardinality(histories) = 1

\* The history rows of a key created last: those of the highest id.
LastCreated(key) ==
  {h \in HistoryOf(key) : \A g \in HistoryOf(key) : g.id <= h.id}

\* C27: in every committed state, the active prices row of a key carries the
\* amount and the currency of the history row of that key created last (no
\* history row of the key has a later createdAt), also after calls on the
\* key that overlapped.
PriceRowMatchesLatestHistory ==
  \A r \in prices :
    r.is_active =>
      /\ Cardinality(LastCreated(Key(r))) = 1
      /\ \A h \in LastCreated(Key(r)) :
           /\ h.priceCents = r.priceCents
           /\ h.currency_code = r.currency_code
           /\ \A g \in HistoryOf(Key(r)) : g.createdAt <= h.createdAt

\* The price of package 1 in municipality 1 was set twice within one reading
\* of the clock, to different amounts, and the prices row carries the amount
\* of the later history row.
MunicipalPriceSetTwiceAtOnce ==
  \E h, g \in HistoryOf(<<1, Some(1)>>) :
    /\ h.id < g.id
    /\ h.createdAt = g.createdAt
    /\ h.priceCents # g.priceCents
    /\ \E r \in ActiveRows(<<1, Some(1)>>) : r.priceCents = g.priceCents

\* C28: in every state reached by calls of updatePackagePrice alone, a key
\* has an active prices row if and only if it has a history row, prices has
\* as many rows as there are keys that were set, and the number of its rows
\* never goes down.
PriceRowIffHistory ==
  /\ [](/\ \A key \in Keys : ActiveRows(key) # {} <=> HistoryOf(key) # {}
        /\ Cardinality(prices) = Cardinality({Key(h) : h \in histories}))
  /\ [][Cardinality(prices') >= Cardinality(prices)]_vars

\* The global price of package 1 and its price in municipality 1 have both
\* been set: two prices rows, one history row for each key.
TwoKeysSetOnce ==
  /\ Cardinality(prices) = 2
  /\ Cardinality(ActiveRows(<<1, Null>>)) = 1
  /\ Cardinality(ActiveRows(<<1, Some(1)>>)) = 1
  /\ Cardinality(HistoryOf(<<1, Null>>)) = 1
  /\ Cardinality(HistoryOf(<<1, Some(1)>>)) = 1

\* C29: a call of updatePackagePrice on a key changes only the prices row
\* and the history of that key: the prices rows and history rows of every
\* other key, and every package and municipality row, stay as they were;
\* getCurrentPackagePrice and getPackagePriceHistory change no row at all.
OnlyTheKeyOfTheCallChanges ==
  /\ [](\A packageId \in PackageInputs, priceCents \in Amounts,
           municipalityId \in MunicipalityInputs :
          \A o \in UpdateOutcomes(packageId, priceCents, municipalityId) :
            \A key \in Keys \ {<<packageId, OrUndefined(municipalityId)>>} :
              /\ {r \in o.prices : Key(r) = key} = RowsOf(key)
              /\ {h \in o.histories : Key(h) = key} = HistoryOf(key))
  /\ [][/\ packages' = packages
        /\ municipalities' = municipalities
        /\ response'.op \in Reads =>
             (prices' = prices /\ histories' = histories)
       ]_vars

\* A call has just set the price of package 1 in municipality 1 to 2999 while
\* the global key of the package keeps its row of 0 and its one history row.
MunicipalKeySetBesideGlobal ==
  /\ response.op = "updatePackagePrice"
  /\ response.success
  /\ \E p \in response.price : p.municipalityId = Some(1) /\ p.priceCents = 2999
  /\ \E r \in RowsOf(<<1, Null>>) : r.priceCents = 0
  /\ Cardinality(HistoryOf(<<1, Null>>)) = 1
  /\ Cardinality(HistoryOf(<<1, Some(1)>>)) = 1

====
